---- MODULE Spec2Model ----
(***************************************************************************)
(* Model of njunmt/decoders/decoder.py: Decoder.decode and dynamic_decode, *)
(* the tf.while_loop driver that calls prepare() once and step()           *)
(* repeatedly, reorders beam lanes, accumulates per-step outputs in        *)
(* TensorArrays and stacks them when the loop ends.                        *)
(*                                                                         *)
(* Per-lane tensors are functions over the lane indices 0..n-1 (the        *)
(* flattened batch x beam dimension).  The collaborators that are not in   *)
(* decoder.py (the feedback helper, the concrete decoder cell, the         *)
(* modality, gather_states, stack_beam_size, DecoderOutputRemover,         *)
(* TensorArray) are modelled by their interface contracts.                 *)
(***************************************************************************)
EXTENDS Integers, FiniteSets, Sequences, TLC

VARIABLES
    decoder,            \* the Decoder object: [mode, ignore_fields]
    helper,             \* the Feedback object: its construction parameters
    pc,                 \* position of the decode() call
    time,               \* loop var 0: the time counter
    inputs,             \* loop var 1: the (post-processed) inputs of the next step
    decoder_states,     \* loop var 2: the decoder states
    outputs_ta,         \* loop var 3: one TensorArray per retained output field
    finished,           \* loop var 4: the finished mask
    log_probs,          \* loop var 5 (INFER): accumulated log probabilities
    lengths,            \* loop var 6 (INFER): sequence lengths
    infer_status_ta,    \* loop var 7 (INFER): TensorArrays of BeamSearchStateSpec
    decoding_params,    \* the side parameters returned by prepare()
    final_outputs,      \* the stacked outputs_ta
    final_infer_status, \* the stacked infer_status_ta (INFER)
    ret_val,            \* what Decoder.decode returned
    calls,              \* how often each collaborator was invoked
    step_log,           \* what every executed body computed, in call order
    post_log,           \* the arguments of every postprocessing_fn call
    sample_log,         \* the arguments of every helper.sample_symbols call
    next_log            \* the arguments and report of every helper.next_symbols call

vars == <<decoder, helper, pc, time, inputs, decoder_states, outputs_ta,
          finished, log_probs, lengths, infer_status_ta, decoding_params,
          final_outputs, final_infer_status, ret_val, calls, step_log,
          post_log, sample_log, next_log>>

loop_vars == <<time, inputs, decoder_states, outputs_ta, finished,
               log_probs, lengths, infer_status_ta>>

(***************************************************************************)
(* Bounds of the model.                                                    *)
(***************************************************************************)
\* the most lanes (batch size x beam size) of a call
MaxLanes == 2

\* the most steps of a call
MaxSteps == 5

(***************************************************************************)
(* Names.                                                                  *)
(***************************************************************************)
INFER == "infer"
TRAIN == "train"
Modes == {INFER, TRAIN}

\* "None" of the Python code, and every variable not assigned yet: no value.
None == <<>>

\* Vocabulary ids used by the feedback helper.
SOS == 0
EOS == 1
WORD == 2

\* decoder.output_dtype._fields of the modelled decoder.
OutputFields == {"cur_decoder_hidden", "attention_scores"}

\* BeamSearchStateSpec fields.
StatusFields == {"log_probs", "predicted_ids", "beam_ids", "lengths"}

(***************************************************************************)
(* Per-lane tensors.                                                       *)
(***************************************************************************)
LaneSet(n) == 0 .. (n - 1)

NumLanes == helper.batch_size * helper.beam_size

Lanes == LaneSet(NumLanes)

\* tf.reduce_all over a boolean tensor (true for the empty tensor).
ReduceAll(mask) == \A i \in DOMAIN mask : mask[i]

\* tf.zeros_like
ZerosLike(x) == [i \in DOMAIN x |-> 0]

\* tf.logical_or, elementwise
LogicalOr(a, b) == [i \in DOMAIN b |-> a[i] \/ b[i]]

\* tf.logical_and, elementwise
LogicalAnd(a, b) == [i \in DOMAIN b |-> a[i] /\ b[i]]

(***************************************************************************)
(* tf.TensorArray(size=0, dynamic_size=True, clear_after_read=False): a    *)
(* function from the slot indices 0..size-1 to [writes, value]; "writes"   *)
(* counts the writes a slot received.                                      *)
(***************************************************************************)
CreateTa == [t \in {} |-> [writes |-> 0, value |-> None]]

TaSize(ta) == Cardinality(DOMAIN ta)

\* ta.write(index, value): grows the array up to the written index.
TaWrite(ta, index, value) ==
    LET size == TaSize(ta)
        newsize == IF index + 1 > size THEN index + 1 ELSE size
    IN [t \in 0 .. (newsize - 1) |->
          IF t = index
          THEN [writes |-> (IF t < size THEN ta[t].writes ELSE 0) + 1,
                value |-> value]
          ELSE IF t < size THEN ta[t]
               ELSE [writes |-> 0, value |-> None]]

\* ta.stack(): the outcomes of stacking.  The arrays are created without an
\* element_shape, so an array that was never written can be stacked only if
\* the graph happens to give it a fully defined element shape; otherwise the
\* stack raises.  Which of the two happens depends on the graph that is
\* built, so both are outcomes.  A written array stacks to its slots in
\* index order.
TaStack(ta) ==
    IF TaSize(ta) = 0
    THEN {[raised |-> FALSE, value |-> <<>>], [raised |-> TRUE, value |-> None]}
    ELSE {[raised |-> FALSE, value |-> [t \in DOMAIN ta |-> ta[t].value]]}

(***************************************************************************)
(* DecoderOutputRemover(mode, fields, ignore_fields): during inference the *)
(* fields named in ignore_fields are not saved.                            *)
(***************************************************************************)
RemoverFields(mode, fields, ignore_fields) ==
    IF mode = INFER THEN fields \ ignore_fields ELSE fields

\* decoder_output_remover.apply(record), for a record or a schema
RemoverApply(mode, ignore_fields, record) ==
    [f \in RemoverFields(mode, DOMAIN record, ignore_fields) |-> record[f]]

(***************************************************************************)
(* njunmt.utils.beam_search: stack_beam_size tiles every batch entry over  *)
(* beam_size consecutive lanes; gather_states picks, for every lane, the   *)
(* entry of its parent lane.                                               *)
(***************************************************************************)
StackBeamSize(x, beam_size) ==
    [i \in LaneSet(Cardinality(DOMAIN x) * beam_size) |-> x[i \div beam_size]]

\* the failure of a gather whose index is not a lane of its argument
GatherError == [i \in {-1} |-> -1]

GatherStates(x, beam_ids) ==
    IF \A i \in DOMAIN beam_ids : beam_ids[i] \in DOMAIN x
    THEN [i \in DOMAIN beam_ids |-> x[beam_ids[i]]]
    ELSE GatherError

(***************************************************************************)
(* The modality: targets_bottom embeds symbols at a position, top projects *)
(* the top features to logits.                                             *)
(***************************************************************************)
TargetsBottom(symbols, t) == [i \in DOMAIN symbols |-> symbols[i] * 16 + t + 1]

ModalityTop(features) == [i \in DOMAIN features |-> (features[i] * 3 + 2) % 997]

(***************************************************************************)
(* The concrete decoder behind the abstract methods of Decoder: a          *)
(* deterministic cell over small integers.                                 *)
(***************************************************************************)
\* decoder.prepare: one initial state and one side parameter per batch entry
DecoderPrepare(batch_size) ==
    [states |-> [b \in LaneSet(batch_size) |-> 100 + b],
     params |-> [b \in LaneSet(batch_size) |-> 200 + b]]

\* decoder.step(decoder_input, decoder_states, decoding_params)
DecoderStep(decoder_input, states, params) ==
    [outputs |->
        [f \in OutputFields |->
            [i \in DOMAIN decoder_input |->
                IF f = "cur_decoder_hidden"
                THEN (states[i] * 31 + decoder_input[i] * 17 + params[i] * 7 + 5) % 997
                ELSE (decoder_input[i] * 13 + params[i] * 3 + 1) % 997]],
     states |->
        [i \in DOMAIN decoder_input |->
            (states[i] * 37 + decoder_input[i] * 11 + params[i] + 3) % 997]]

\* decoder.merge_top_features(decoder_output)
MergeTopFeatures(decoder_output) == decoder_output["cur_decoder_hidden"]

\* Decoder.inputs_prepost_processing_fn: the default hooks
\* the hooks of a decoder that overrides inputs_prepost_processing_fn: the
\* pre-processing adds a position signal, the post-processing accumulates
CustomPreprocessingFn(t, x) == [i \in DOMAIN x |-> (x[i] + 3 * t + 1) % 997]

CustomPostprocessingFn(prev_inputs, predicted_inputs) ==
    [i \in DOMAIN predicted_inputs |->
        IF i \in DOMAIN prev_inputs
        THEN (prev_inputs[i] * 7 + predicted_inputs[i]) % 997
        ELSE predicted_inputs[i]]

PreprocessingFn(t, x) ==
    IF decoder.hooks = "default" THEN x ELSE CustomPreprocessingFn(t, x)

PostprocessingFn(prev_inputs, predicted_inputs) ==
    IF decoder.hooks = "default"
    THEN predicted_inputs
    ELSE CustomPostprocessingFn(prev_inputs, predicted_inputs)

(***************************************************************************)
(* The feedback helper.  TRAIN/EVAL: teacher forcing over label sequences  *)
(* of the given lengths.  INFER: a beam policy that picks the parent lanes *)
(* and the sampled symbols, finishes a lane on EOS and force-finishes      *)
(* every lane once time + 1 reaches max_seq_len (0: no maximum length).    *)
(***************************************************************************)
\* the ground-truth label of lane i at position t
LabelIds(i, t) == WORD + ((i + t) % 2)

\* helper.init_symbols()
HelperInitSymbols ==
    [finished |-> IF decoder.mode = INFER
                  THEN [i \in Lanes |-> helper.start_finished]
                  ELSE [i \in Lanes |-> helper.label_length[i] = 0],
     symbols |-> [i \in Lanes |-> SOS]]

\* the parent lanes a beam policy may choose: every beam keeps its parent, or
\* the beams of each batch entry are reversed; a policy that breaks its
\* contract may also name a parent that is not a lane
BeamIdChoices ==
    {[i \in Lanes |-> i],
     [i \in Lanes |-> (i \div helper.beam_size) * helper.beam_size
                       + (helper.beam_size - 1 - (i % helper.beam_size))]}
    \cup (IF helper.valid_beams \/ NumLanes = 0
          THEN {}
          ELSE {[i \in Lanes |-> NumLanes]})

\* the symbols a beam policy may sample
SampleIdChoices ==
    {[i \in Lanes |-> WORD],
     [i \in Lanes |-> EOS],
     [i \in Lanes |-> IF i = 0 THEN EOS ELSE WORD]}

\* the lane whose score a policy extends for lane i: its parent, or the lane
\* itself when the policy names a parent that is not a lane
ScoredLane(bids, i) == IF bids[i] \in Lanes THEN bids[i] ELSE i

\* helper.sample_symbols(logits, log_probs, finished, lengths, time): the set
\* of results the policy may return
HelperSampleSymbols(logits, prior_log_probs, prior_finished, prior_lengths, t) ==
    {[sample_ids |-> ids,
      beam_ids |-> bids,
      next_log_probs |->
          [i \in Lanes |-> prior_log_probs[ScoredLane(bids, i)]
                           + (IF prior_finished[ScoredLane(bids, i)] THEN 0 ELSE -1)],
      next_lengths |->
          [i \in Lanes |-> prior_lengths[ScoredLane(bids, i)]
                           + (IF prior_finished[ScoredLane(bids, i)] THEN 0 ELSE 1)]]
     : ids \in SampleIdChoices, bids \in BeamIdChoices}

\* helper.next_symbols(time, sample_ids)
HelperNextSymbols(t, sample_ids) ==
    IF decoder.mode = INFER
    THEN [finished |->
              [i \in Lanes |-> \/ sample_ids[i] = EOS
                               \/ /\ helper.max_seq_len > 0
                                  /\ t + 1 >= helper.max_seq_len],
          symbols |-> sample_ids]
    ELSE LET fin == [i \in Lanes |-> t + 1 >= helper.label_length[i]]
         IN [finished |-> fin,
             symbols |-> IF ReduceAll(fin)
                         THEN [i \in Lanes |-> EOS]
                         ELSE [i \in Lanes |-> LabelIds(i, t)]]

(***************************************************************************)
(* The pieces of dynamic_decode and of its loop body.                      *)
(***************************************************************************)
\* _compute_logits(decoder, target_modality, decoder_output), one step's record
ComputeLogits(decoder_output) == ModalityTop(MergeTopFeatures(decoder_output))

\* faulty logits: of the last step only
ComputeLogitsLastStep(stacked) ==
    LET n == Cardinality(DOMAIN stacked["cur_decoder_hidden"])
    IN [t \in {u \in DOMAIN stacked["cur_decoder_hidden"] : u = n - 1} |->
           ModalityTop(stacked["cur_decoder_hidden"][t])]

\* _compute_logits on the stacked outputs: the same projection at every time
ComputeLogitsStacked(stacked) ==
    [t \in DOMAIN stacked["cur_decoder_hidden"] |->
        ModalityTop(stacked["cur_decoder_hidden"][t])]

\* _embed_words(target_modality, symbols, time)
EmbedWords(symbols, t) == TargetsBottom(symbols, t)

\* the fields dynamic_decode keeps: decoder_output_remover.apply(output_dtype)
RetainedFields ==
    RemoverFields(decoder.mode, OutputFields, decoder.ignore_fields)

\* faulty buffers: one TensorArray per field of the unfiltered schema
InitialOutputsTaUnfiltered == [f \in OutputFields |-> CreateTa]

\* initial_outputs_ta: one TensorArray per retained field
InitialOutputsTa == [f \in RetainedFields |-> CreateTa]

\* initial_infer_status_ta: one TensorArray per BeamSearchStateSpec field
InitialInferStatusTa == [f \in StatusFields |-> CreateTa]

\* initial_log_probs = tf.zeros_like(initial_input_symbols)
InitialLogProbs(symbols) == ZerosLike(symbols)

\* initial_lengths = tf.zeros_like(initial_input_symbols)
InitialLengths(symbols) == ZerosLike(symbols)

\* a faulty counter: the time advances by two
NextTimeSkip(t) == t + 2

\* a faulty slot: every step overwrites the first slot
WriteSlotZero(t) == 0

\* a faulty slot: off by one, slot 0 is never written
WriteSlotNext(t) == t + 1

\* the slot a body writes: ta.write(time, out)
WriteSlot(t) == t

\* nest.map_structure(lambda ta, out: ta.write(time, out), tas, record)
WriteAll(tas, t, record) ==
    [f \in DOMAIN tas |-> TaWrite(tas[f], WriteSlot(t), record[f])]

\* nest.map_structure(lambda ta: ta.stack(), tas): the outcomes; the
\* structure is stacked if every array is, and the call raises if one does
StackAll(tas) ==
    {[raised |-> FALSE,
      value |-> [f \in DOMAIN tas |->
                    (CHOOSE o \in TaStack(tas[f]) : ~o.raised).value]]}
    \cup (IF \E f \in DOMAIN tas : \E o \in TaStack(tas[f]) : o.raised
          THEN {[raised |-> TRUE, value |-> None]}
          ELSE {})

\* inner_loop_vars[0] = time + 1
NextTime(t) == t + 1

\* a faulty reordering: the new states stay in their pre-reorder lanes
KeepStates(states, beam_ids) == states

\* next_decoder_states = gather_states(next_decoder_states, beam_ids)
ReorderStates(states, beam_ids) == GatherStates(states, beam_ids)

\* a faulty reordering: the previous inputs stay in their pre-reorder lanes
KeepInputs(x, beam_ids) == x

\* prev_inputs = gather_states(inputs, beam_ids)
ReorderInputs(x, beam_ids) == GatherStates(x, beam_ids)

\* a faulty status entry: the sampled symbols and the parent lanes swapped
InferStatusSwapped(sampled) ==
    [log_probs |-> sampled.next_log_probs,
     predicted_ids |-> sampled.beam_ids,
     beam_ids |-> sampled.sample_ids,
     lengths |-> sampled.next_lengths]

\* BeamSearchStateSpec(log_probs, predicted_ids, beam_ids, lengths)
InferStatus(sampled) ==
    [log_probs |-> sampled.next_log_probs,
     predicted_ids |-> sampled.sample_ids,
     beam_ids |-> sampled.beam_ids,
     lengths |-> sampled.next_lengths]

\* a faulty carry: the accumulated log_probs restart from zero
CarriedLogProbsReset(sampled) == ZerosLike(sampled.next_log_probs)

\* inner_loop_vars.extend([next_log_probs, ...]): the log_probs carried on
CarriedLogProbs(sampled) == sampled.next_log_probs

\* inner_loop_vars.extend([..., next_lengths, ...]): the lengths carried on
CarriedLengths(sampled) == sampled.next_lengths

\* a faulty combination: a lane counts as finished only while it is reported
\* finished again
NextFinishedAnd(reported, prev_finished) == LogicalAnd(reported, prev_finished)

\* a faulty combination: the newly reported mask replaces the carried one
NextFinishedOverwrite(reported, prev_finished) == reported

\* next_finished = tf.logical_or(next_finished, finished)
NextFinished(reported, prev_finished) == LogicalOr(reported, prev_finished)

\* a faulty condition: reduce_any in place of reduce_all
LoopConditionAny(t, mask) == ~(\E i \in DOMAIN mask : mask[i])

\* a faulty condition: an internal cap of three steps
LoopConditionCapped(t, mask) == ~ReduceAll(mask) /\ t < 3

\* the initial decoder states and side parameters: in INFER mode each batch
\* entry is repeated beam_size times
InitialStatesUnstacked(x) == x

InitialDecoderStates(x) ==
    IF decoder.mode = INFER THEN StackBeamSize(x, helper.beam_size) ELSE x

\* the initial finished mask of the loop: the helper's
InitialFinished(init) == init.finished

\* a faulty position: the next symbols are embedded at the current time
NextPositionSame(t) == t

\* the position at which the next input symbols are embedded
NextPosition(t) == t + 1

\* a faulty driver that swallows the failure of a gather and goes on
StepOutcomeSwallowed(gathered_states, gathered_inputs) == "cond"

\* where a step leaves the call: an error raised by gather_states is not
\* caught and ends dynamic_decode, otherwise the loop goes on
StepOutcome(gathered_states, gathered_inputs) ==
    IF gathered_states = GatherError \/ gathered_inputs = GatherError
    THEN "failed"
    ELSE "cond"

\* the while_loop condition over the loop variables (args[0] is the time,
\* args[4] the finished mask): tf.logical_not(tf.reduce_all(args[4]))
LoopCondition(t, mask) == ~ReduceAll(mask)

(***************************************************************************)
(* The state before Decoder.decode is called: a decoder and a helper.      *)
(***************************************************************************)
HelperConfigs(mode, valid) ==
    IF mode = INFER
    THEN {h \in [batch_size : 0 .. MaxLanes,
                  beam_size : 1 .. MaxLanes,
                  max_seq_len : 0 .. MaxSteps - 1,
                  start_finished : BOOLEAN,
                  valid_beams : {valid},
                  label_length : {<<>>}] :
             h.batch_size * h.beam_size <= MaxLanes}
    ELSE UNION {[batch_size : {b},
                 beam_size : {1},
                 max_seq_len : {0},
                 start_finished : {FALSE},
                 valid_beams : {valid},
                 label_length : [LaneSet(b) -> 0 .. MaxSteps]]
                : b \in 0 .. MaxLanes}

\* the decoders: the default hooks with or without an ignored output field,
\* and a decoder that overrides the hooks and keeps every output field
DecoderConfigs ==
    {d \in [mode : Modes, ignore_fields : {{}, {"attention_scores"}},
            hooks : {"default", "custom"}] :
        d.hooks = "custom" => d.ignore_fields = {}}

NoCalls ==
    [prepare |-> 0, init_symbols |-> 0, step |-> 0, sample_symbols |-> 0,
     next_symbols |-> 0, compute_logits |-> 0, condition |-> 0,
     stack |-> 0]

StartState ==
    /\ pc = "start"
    /\ time = 0
    /\ inputs = None
    /\ decoder_states = None
    /\ outputs_ta = None
    /\ finished = None
    /\ log_probs = None
    /\ lengths = None
    /\ infer_status_ta = None
    /\ decoding_params = None
    /\ final_outputs = None
    /\ final_infer_status = None
    /\ ret_val = None
    /\ calls = NoCalls
    /\ step_log = <<>>
    /\ post_log = <<>>
    /\ sample_log = <<>>
    /\ next_log = <<>>

\* a feedback helper that keeps its contract
Init ==
    /\ decoder \in DecoderConfigs
    /\ helper \in HelperConfigs(decoder.mode, TRUE)
    /\ StartState

\* a beam policy that may name a parent lane that does not exist
FaultyInit ==
    /\ decoder \in {d \in DecoderConfigs : d.mode = INFER}
    /\ helper \in HelperConfigs(decoder.mode, FALSE)
    /\ StartState

(***************************************************************************)
(* dynamic_decode up to the while_loop: the helper's start symbols, their  *)
(* embedding, prepare(), the beam stacking and the initial loop variables. *)
(***************************************************************************)
Prepare ==
    /\ pc = "start"
    /\ pc' = "cond"
    /\ LET init == HelperInitSymbols
           raw == EmbedWords(init.symbols, 0)
           prep == DecoderPrepare(helper.batch_size)
       IN /\ time' = 0
          /\ inputs' = PostprocessingFn(None, raw)
          /\ decoder_states' = InitialDecoderStates(prep.states)
          /\ decoding_params' = InitialDecoderStates(prep.params)
          /\ outputs_ta' = InitialOutputsTa
          /\ finished' = InitialFinished(init)
          /\ log_probs' =
                IF decoder.mode = INFER THEN InitialLogProbs(init.symbols) ELSE None
          /\ lengths' =
                IF decoder.mode = INFER THEN InitialLengths(init.symbols) ELSE None
          /\ infer_status_ta' =
                IF decoder.mode = INFER THEN InitialInferStatusTa ELSE None
          /\ post_log' = Append(post_log, [prev_inputs |-> None,
                                            predicted_inputs |-> raw])
          /\ calls' = [calls EXCEPT !.prepare = @ + 1, !.init_symbols = @ + 1]
    /\ UNCHANGED <<decoder, helper, final_outputs, final_infer_status, ret_val,
                   step_log, sample_log, next_log>>

(***************************************************************************)
(* One evaluation of the while_loop condition.                             *)
(***************************************************************************)
LoopCond ==
    /\ pc = "cond"
    /\ pc' = IF LoopCondition(time, finished) THEN "body" ELSE "exit"
    /\ calls' = [calls EXCEPT !.condition = @ + 1]
    /\ UNCHANGED <<decoder, helper, loop_vars, decoding_params, final_outputs,
                   final_infer_status, ret_val, step_log, post_log, sample_log,
                   next_log>>

(***************************************************************************)
(* body_traininfer: one decoding step.  The model stops at MaxSteps.       *)
(***************************************************************************)
NoSample ==
    [sample_ids |-> None, beam_ids |-> None,
     next_log_probs |-> None, next_lengths |-> None]

Body ==
    /\ pc = "body"
    /\ time < MaxSteps
    /\ pc' \in {"cond", "failed"}
    /\ LET infer == decoder.mode = INFER
           step_inputs == PreprocessingFn(time, inputs)
           res == DecoderStep(step_inputs, decoder_states, decoding_params)
           logits == IF infer THEN ComputeLogits(res.outputs) ELSE None
       IN \E sampled \in
              (IF infer
               THEN HelperSampleSymbols(logits, log_probs, finished, lengths, time)
               ELSE {NoSample}) :
            LET next_decoder_states ==
                    IF infer THEN ReorderStates(res.states, sampled.beam_ids)
                    ELSE res.states
                prev_inputs ==
                    IF infer THEN ReorderInputs(step_inputs, sampled.beam_ids)
                    ELSE step_inputs
                nxt == HelperNextSymbols(time, sampled.sample_ids)
                raw == EmbedWords(nxt.symbols, NextPosition(time))
                entry == [time |-> time, carried_inputs |-> inputs,
                          inputs |-> step_inputs,
                          states_in |-> decoder_states,
                          params |-> decoding_params,
                          outputs |-> res.outputs, states |-> res.states,
                          beam_ids |-> sampled.beam_ids]
                sample_entry == [time |-> time, logits |-> logits,
                                 log_probs |-> log_probs,
                                 finished |-> finished,
                                 lengths |-> lengths, result |-> sampled]
            IN /\ pc' = StepOutcome(next_decoder_states, prev_inputs)
               /\ step_log' = Append(step_log, entry)
               /\ sample_log' =
                     IF infer THEN Append(sample_log, sample_entry)
                     ELSE sample_log
               /\ IF pc' = "failed"
                  THEN /\ calls' =
                             [calls EXCEPT
                                !.step = @ + 1,
                                !.compute_logits = @ + 1,
                                !.sample_symbols = @ + 1]
                       /\ UNCHANGED <<loop_vars, post_log, next_log>>
                  ELSE /\ time' = NextTime(time)
                       /\ inputs' = PostprocessingFn(prev_inputs, raw)
                       /\ decoder_states' = next_decoder_states
                       /\ outputs_ta' =
                             WriteAll(outputs_ta, time,
                                      RemoverApply(decoder.mode,
                                                   decoder.ignore_fields,
                                                   res.outputs))
                       /\ finished' = NextFinished(nxt.finished, finished)
                       /\ log_probs' =
                             IF infer THEN CarriedLogProbs(sampled) ELSE None
                       /\ lengths' =
                             IF infer THEN CarriedLengths(sampled) ELSE None
                       /\ infer_status_ta' =
                             IF infer
                             THEN WriteAll(infer_status_ta, time,
                                           InferStatus(sampled))
                             ELSE None
                       /\ post_log' =
                             Append(post_log,
                                    [prev_inputs |-> prev_inputs,
                                     predicted_inputs |-> raw])
                       /\ next_log' =
                             Append(next_log,
                                    [time |-> time,
                                     sample_ids |-> sampled.sample_ids,
                                     symbols |-> nxt.symbols,
                                     finished |-> nxt.finished])
                       /\ calls' =
                             [calls EXCEPT
                                !.step = @ + 1,
                                !.next_symbols = @ + 1,
                                !.compute_logits =
                                    IF infer THEN @ + 1 ELSE @,
                                !.sample_symbols =
                                    IF infer THEN @ + 1 ELSE @]
    /\ UNCHANGED <<decoder, helper, decoding_params, final_outputs,
                   final_infer_status, ret_val>>

(***************************************************************************)
(* dynamic_decode after the while_loop: the TensorArrays are stacked.  A   *)
(* stack that raises ends the call: nothing is returned.                   *)
(***************************************************************************)
Stack ==
    /\ pc = "exit"
    /\ pc' \in {"stacked", "stack_failed"}
    /\ \E outs \in StackAll(outputs_ta) :
       \E status \in (IF decoder.mode = INFER
                      THEN StackAll(infer_status_ta)
                      ELSE {[raised |-> FALSE, value |-> None]}) :
          /\ pc' = IF outs.raised \/ status.raised
                   THEN "stack_failed" ELSE "stacked"
          /\ final_outputs' = IF pc' = "stacked" THEN outs.value ELSE None
          /\ final_infer_status' =
                IF pc' = "stacked" THEN status.value ELSE None
    /\ calls' = [calls EXCEPT !.stack = IF pc' = "stacked" THEN @ + 1 ELSE @]
    /\ UNCHANGED <<decoder, helper, loop_vars, decoding_params, ret_val,
                   step_log, post_log, sample_log, next_log>>

(***************************************************************************)
(* Decoder.decode after dynamic_decode returned.                           *)
(***************************************************************************)
DecodeReturn ==
    /\ pc = "stacked"
    /\ pc' = "returned"
    /\ ret_val' =
          IF decoder.mode = INFER
          THEN [outputs |-> final_outputs, status |-> final_infer_status]
          ELSE [outputs |-> final_outputs,
                status |-> ComputeLogitsStacked(final_outputs)]
    /\ calls' = [calls EXCEPT
                   !.compute_logits = IF decoder.mode = INFER THEN @ ELSE @ + 1]
    /\ UNCHANGED <<decoder, helper, loop_vars, decoding_params, final_outputs,
                   final_infer_status, step_log, post_log, sample_log, next_log>>

Next == Prepare \/ LoopCond \/ Body \/ Stack \/ DecodeReturn

Spec == Init /\ [][Next]_vars

\* One thread of control runs the call: every enabled step is eventually taken
\* (every step of Next moves pc).
FairSpec == Spec /\ WF_pc(Next)

\* the decode call with a beam policy that may break its contract
FaultySpec == FaultyInit /\ [][Next]_vars

TypeOK ==
    pc \in {"start", "cond", "body", "exit", "stacked", "returned", "failed",
            "stack_failed"}

(***************************************************************************)
(* Derived values the properties speak about.                              *)
(***************************************************************************)
Left == pc \in {"exit", "stacked", "returned"}

Stacked == pc \in {"stacked", "returned"}

\* every TensorArray the loop carries
Buffers ==
    {outputs_ta[f] : f \in DOMAIN outputs_ta}
    \cup (IF decoder.mode = INFER
          THEN {infer_status_ta[f] : f \in StatusFields} ELSE {})

\* every stacked buffer
FinalBuffers ==
    {final_outputs[f] : f \in DOMAIN final_outputs}
    \cup (IF decoder.mode = INFER
          THEN {final_infer_status[f] : f \in StatusFields} ELSE {})

\* the times at which next_symbols reported every lane finished
AllReportTimes ==
    {next_log[j].time : j \in {n \in DOMAIN next_log :
                                  ReduceAll(next_log[n].finished)}}

(***************************************************************************)
(* C1. If the initial finished mask is not all-true and next_symbols       *)
(* reports all lanes finished at time k, the body has run exactly k+1      *)
(* times (times 0..k), no further step is started, every buffer holds k+1  *)
(* slots and every stacked buffer has length k+1.                          *)
(***************************************************************************)
C1_StepsUntilAllFinished ==
    \A k \in AllReportTimes :
        ~ReduceAll(HelperInitSymbols.finished) =>
            /\ pc # "body"
            /\ calls.step = k + 1
            /\ time = k + 1
            /\ \A ta \in Buffers : TaSize(ta) = k + 1
            /\ Stacked => \A b \in FinalBuffers : DOMAIN b = 0 .. k

\* a policy forcing the finish at time 3, whatever was sampled: 4 steps
C1_Witness ==
    /\ pc = "returned"
    /\ decoder.mode = INFER
    /\ NumLanes = 2
    /\ helper.max_seq_len = 4
    /\ AllReportTimes = {3}
    /\ \A i \in Lanes : next_log[4].sample_ids[i] = WORD
    /\ calls.step = 4
    /\ \A b \in FinalBuffers : DOMAIN b = 0 .. 3

(***************************************************************************)
(* C2. The finished mask is monotonic per lane: a lane whose flag is true  *)
(* keeps it in every later step, whatever the helper reports; the mask a   *)
(* step carries out is the previous mask OR the reported one.              *)
(***************************************************************************)
C2_FinishedMonotonic ==
    [][pc # "start" =>
          /\ \A i \in Lanes : finished[i] => finished'[i]
          /\ pc = "body" =>
                \A i \in Lanes :
                    finished'[i] = (finished[i]
                                    \/ next_log'[Len(next_log')].finished[i])]_vars

\* a lane stays finished although the helper no longer reports it finished
C2_Witness ==
    /\ pc = "cond"
    /\ Len(next_log) >= 2
    /\ \E i \in Lanes :
          /\ finished[i]
          /\ next_log[Len(next_log) - 1].finished[i]
          /\ ~next_log[Len(next_log)].finished[i]

(***************************************************************************)
(* C3. INFER: after every step the state carried at lane i is the state    *)
(* step() produced at lane beam_ids[i], and the previous input handed to   *)
(* the post-processing hook at lane i is the step's input at lane          *)
(* beam_ids[i].                                                            *)
(***************************************************************************)
C3_BeamReorder ==
    (decoder.mode = INFER /\ Len(step_log) > 0) =>
        LET last == step_log[Len(step_log)]
            post == post_log[Len(post_log)]
        IN \A i \in Lanes :
              /\ decoder_states[i] = last.states[last.beam_ids[i]]
              /\ post.prev_inputs[i] = last.inputs[last.beam_ids[i]]

\* two lanes, beam_ids = [1, 0] at step 1: state and pending input are swapped
C3_Witness ==
    /\ decoder.mode = INFER
    /\ NumLanes = 2
    /\ Len(step_log) = 2
    /\ LET last == step_log[2]
           post == post_log[Len(post_log)]
       IN /\ last.time = 1
          /\ last.beam_ids[0] = 1 /\ last.beam_ids[1] = 0
          /\ last.states[0] # last.states[1]
          /\ last.inputs[0] # last.inputs[1]
          /\ decoder_states[0] = last.states[1]
          /\ decoder_states[1] = last.states[0]
          /\ post.prev_inputs[0] = last.inputs[1]
          /\ post.prev_inputs[1] = last.inputs[0]

(***************************************************************************)
(* C4. The loop is left exactly when the termination condition holds: the  *)
(* finished mask is all-true (INFER), the time has reached the target      *)
(* length (TRAIN/EVAL).  No step runs once it holds, and the loop is not   *)
(* left while it does not hold.                                            *)
(***************************************************************************)
\* the length of the teacher-forced target: the longest label sequence
TargetLength ==
    IF NumLanes = 0 THEN 0
    ELSE CHOOSE m \in {helper.label_length[i] : i \in Lanes} :
            \A i \in Lanes : helper.label_length[i] <= m

TerminationCondition ==
    IF decoder.mode = INFER THEN ReduceAll(finished) ELSE time >= TargetLength

C4_TerminatesIffFinished ==
    /\ pc = "body" => ~TerminationCondition
    /\ Left => TerminationCondition

\* teacher forcing over two targets of different lengths: left at the longer
C4_Witness ==
    /\ pc = "exit"
    /\ decoder.mode = TRAIN
    /\ NumLanes = 2
    /\ helper.label_length[0] # helper.label_length[1]
    /\ time = TargetLength
    /\ time >= 2
    /\ calls.step = time

(***************************************************************************)
(* C5. TRAIN/EVAL with target length T >= 1: every stacked field has       *)
(* exactly T entries and entry t is the record step() produced at time t.  *)
(***************************************************************************)
C5_TeacherForcedLength ==
    (Stacked /\ decoder.mode = TRAIN /\ TargetLength >= 1) =>
        /\ DOMAIN final_outputs = RetainedFields
        /\ Len(step_log) = TargetLength
        /\ \A f \in RetainedFields :
              /\ DOMAIN final_outputs[f] = 0 .. (TargetLength - 1)
              /\ \A t \in 0 .. (TargetLength - 1) :
                    /\ step_log[t + 1].time = t
                    /\ final_outputs[f][t] = step_log[t + 1].outputs[f]

C5_Witness ==
    /\ pc = "returned"
    /\ decoder.mode = TRAIN
    /\ NumLanes = 2
    /\ TargetLength = 3
    /\ \A f \in OutputFields : DOMAIN final_outputs[f] = 0 .. 2
    /\ final_outputs["cur_decoder_hidden"][0] # final_outputs["cur_decoder_hidden"][2]

(***************************************************************************)
(* C6. Every buffer: after T executed steps the slots are exactly 0..T-1,  *)
(* each written once, slot t by the step at time t; nothing is stacked     *)
(* before the loop is left, and the buffers are stacked once, in time      *)
(* order.                                                                  *)
(***************************************************************************)
C6_WriteOncePerTime ==
    pc # "start" =>
        /\ \A f \in DOMAIN outputs_ta :
              /\ DOMAIN outputs_ta[f] = 0 .. (calls.step - 1)
              /\ \A t \in DOMAIN outputs_ta[f] :
                    /\ outputs_ta[f][t].writes = 1
                    /\ step_log[t + 1].time = t
                    /\ outputs_ta[f][t].value = step_log[t + 1].outputs[f]
        /\ decoder.mode = INFER =>
              \A f \in StatusFields :
                 /\ DOMAIN infer_status_ta[f] = 0 .. (calls.step - 1)
                 /\ \A t \in DOMAIN infer_status_ta[f] :
                       /\ infer_status_ta[f][t].writes = 1
                       /\ sample_log[t + 1].time = t
                       /\ infer_status_ta[f][t].value
                             = InferStatus(sample_log[t + 1].result)[f]
        /\ calls.stack = IF Stacked THEN 1 ELSE 0
        /\ Stacked =>
              /\ \A f \in DOMAIN outputs_ta :
                    final_outputs[f] = [t \in 0 .. (calls.step - 1) |->
                                           outputs_ta[f][t].value]
              /\ decoder.mode = INFER =>
                    \A f \in StatusFields :
                       final_infer_status[f] = [t \in 0 .. (calls.step - 1) |->
                                                   infer_status_ta[f][t].value]

C6_Witness ==
    /\ pc = "stacked"
    /\ decoder.mode = INFER
    /\ NumLanes = 2
    /\ calls.step = 3
    /\ \A ta \in Buffers :
          DOMAIN ta = 0 .. 2 /\ \A t \in 0 .. 2 : ta[t].writes = 1
    /\ \A b \in FinalBuffers : DOMAIN b = 0 .. 2

(***************************************************************************)
(* C7. Batch size 0: the loop condition is evaluated once and is false, no *)
(* step runs, and the call returns its buffers, stacked and empty.         *)
(***************************************************************************)
\* the stack after the loop raised
StackRaised == pc = "stack_failed"

C7_EmptyBatch ==
    helper.batch_size = 0 =>
        /\ pc # "body"
        /\ calls.step = 0
        /\ calls.condition <= 1
        /\ Left => calls.condition = 1
        /\ ~StackRaised
        /\ Stacked => \A b \in FinalBuffers : DOMAIN b = {}

\* the empty batch left the loop after one evaluation of the condition and
\* without a step, and the stack of the never-written arrays raised: nothing
\* is returned
C7_EmptyBatchStackRaises ==
    /\ StackRaised
    /\ helper.batch_size = 0
    /\ calls.condition = 1
    /\ calls.step = 0
    /\ \A ta \in Buffers : TaSize(ta) = 0
    /\ final_outputs = None
    /\ ret_val = None

(***************************************************************************)
(* C8. TRAIN/EVAL runs no beam logic: sample_symbols is never called,      *)
(* nothing is reordered, there is no beam-status buffer, next_symbols gets *)
(* no sampled ids, and decode returns the outputs with the logits computed *)
(* once, after the loop, from the outputs of all steps.  INFER computes    *)
(* the logits in every step and returns the outputs with the stacked beam  *)
(* status.                                                                 *)
(***************************************************************************)
C8_ModeSeparation ==
    /\ (decoder.mode = TRAIN /\ pc # "start") =>
          /\ calls.sample_symbols = 0
          /\ sample_log = <<>>
          /\ infer_status_ta = None
          /\ log_probs = None
          /\ \A j \in DOMAIN next_log : next_log[j].sample_ids = None
          /\ Len(step_log) > 0 =>
                /\ decoder_states = step_log[Len(step_log)].states
                /\ post_log[Len(post_log)].prev_inputs
                      = step_log[Len(step_log)].inputs
          /\ calls.compute_logits = IF pc = "returned" THEN 1 ELSE 0
          /\ pc = "returned" =>
                /\ ret_val.outputs = final_outputs
                /\ DOMAIN ret_val.status = 0 .. (calls.step - 1)
                /\ \A t \in 0 .. (calls.step - 1) :
                      ret_val.status[t]
                         = ModalityTop(MergeTopFeatures(step_log[t + 1].outputs))
    /\ (decoder.mode = INFER /\ pc # "start") =>
          /\ calls.compute_logits = calls.step
          /\ calls.sample_symbols = calls.step
          /\ \A j \in DOMAIN sample_log :
                sample_log[j].logits
                   = ModalityTop(MergeTopFeatures(step_log[j].outputs))
          /\ pc = "returned" =>
                /\ ret_val.outputs = final_outputs
                /\ ret_val.status = final_infer_status

C8_Witness ==
    /\ pc = "returned"
    /\ decoder.mode = TRAIN
    /\ NumLanes = 2
    /\ calls.step = 3
    /\ calls.sample_symbols = 0
    /\ calls.compute_logits = 1
    /\ DOMAIN ret_val.status = 0 .. 2

(***************************************************************************)
(* C9. INFER: the log probabilities and lengths handed to sample_symbols   *)
(* are zero at time 0 and afterwards exactly what sample_symbols returned  *)
(* one step earlier.  So when the policy subtracts 1 from lane 0 in each   *)
(* of n steps, the log probability recorded for lane 0 at the last of them *)
(* is -n (-5 after 5 steps, standing for 5 increments of -0.1).            *)
(***************************************************************************)
\* the policy lowered lane 0's log probability by one in its j-th call
DecrementedLaneZero(j) ==
    sample_log[j].result.next_log_probs[0] = sample_log[j].log_probs[0] - 1

C9_LogProbCarry ==
    decoder.mode = INFER =>
        /\ \A j \in DOMAIN sample_log :
              /\ sample_log[j].time = j - 1
              /\ sample_log[j].log_probs =
                    IF j = 1 THEN [i \in Lanes |-> 0]
                    ELSE sample_log[j - 1].result.next_log_probs
              /\ sample_log[j].lengths =
                    IF j = 1 THEN [i \in Lanes |-> 0]
                    ELSE sample_log[j - 1].result.next_lengths
        /\ \A n \in DOMAIN sample_log :
              (NumLanes > 0 /\ \A j \in 1 .. n : DecrementedLaneZero(j)) =>
                  infer_status_ta["log_probs"][n - 1].value[0] = -n

C9_Witness ==
    /\ decoder.mode = INFER
    /\ NumLanes = 2
    /\ Len(sample_log) = 5
    /\ \A j \in 1 .. 5 : DecrementedLaneZero(j)
    /\ \E j \in 1 .. 5 : sample_log[j].result.beam_ids[0] = 1
    /\ infer_status_ta["log_probs"][4].value[0] = -5
    /\ log_probs[0] = -5

(***************************************************************************)
(* C10. The driver has no step cap of its own.  The loop is left only     *)
(* with every lane finished; unless every lane gets finished the steps go  *)
(* on (up to the bound of the model, MaxSteps); and once the policy has    *)
(* finished every lane in some step the call goes on to stack its buffers  *)
(* and return.                                                             *)
(***************************************************************************)
AllLanesFinished == pc # "start" /\ ReduceAll(finished)

Returned == pc = "returned" /\ calls.stack = 1 /\ calls.step = time

FedSymbols(t) ==
    IF t = 0 THEN HelperInitSymbols.symbols
    ELSE HelperNextSymbols(t - 1, None).symbols

RefPrepared == DecoderPrepare(helper.batch_size)

RefStep(t, state) ==
    DecoderStep(EmbedWords(FedSymbols(t), t), state, RefPrepared.params)

RECURSIVE RefState(_)
RefState(t) ==
    IF t = 0 THEN RefPrepared.states ELSE RefStep(t - 1, RefState(t - 1)).states

RefRecord(t) == RefStep(t, RefState(t)).outputs

C11_TeacherForcedRoundTrip ==
    (Stacked /\ decoder.mode = TRAIN /\ decoder.hooks = "default") =>
        /\ DOMAIN final_outputs = OutputFields
        /\ \A f \in OutputFields :
              /\ DOMAIN final_outputs[f] = 0 .. (TargetLength - 1)
              /\ \A t \in 0 .. (TargetLength - 1) :
                    final_outputs[f][t] = RefRecord(t)[f]

\* three teacher-forced steps over two lanes whose labels differ, returned
C11_Witness ==
    /\ pc = "returned"
    /\ decoder.mode = TRAIN
    /\ decoder.hooks = "default"
    /\ NumLanes = 2
    /\ TargetLength = 3
    /\ \A f \in OutputFields :
          /\ DOMAIN ret_val.outputs[f] = 0 .. 2
          /\ ret_val.outputs[f][2] = RefRecord(2)[f]
    /\ RefRecord(2) # RefRecord(1)
    /\ FedSymbols(1)[0] # FedSymbols(1)[1]

(***************************************************************************)
(* C12. The schema filter is idempotent, for every schema and ignore list, *)
(* and constant over a decode call: the field set the buffers are created  *)
(* for is the field set of the filtered record written at every step, and  *)
(* the field set that is stacked.                                          *)
(***************************************************************************)
\* the decode call's filter applied to a field set
FilterOf(fields) == RemoverFields(decoder.mode, fields, decoder.ignore_fields)

\* the filtered record of the step logged at j
FilteredRecord(j) ==
    RemoverApply(decoder.mode, decoder.ignore_fields, step_log[j].outputs)

C12_SchemaFilterConstant ==
    /\ \A m \in Modes : \A fields, ign \in SUBSET OutputFields :
          RemoverFields(m, RemoverFields(m, fields, ign), ign)
             = RemoverFields(m, fields, ign)
    /\ pc # "start" =>
          /\ DOMAIN outputs_ta = FilterOf(OutputFields)
          /\ FilterOf(DOMAIN outputs_ta) = DOMAIN outputs_ta
          /\ \A j \in DOMAIN step_log :
                /\ DOMAIN step_log[j].outputs = OutputFields
                /\ DOMAIN FilteredRecord(j) = DOMAIN outputs_ta
                /\ \A f \in DOMAIN outputs_ta :
                      outputs_ta[f][step_log[j].time].value
                         = FilteredRecord(j)[f]
    /\ Stacked => DOMAIN final_outputs = FilterOf(OutputFields)

\* an INFER call that ignores a field wrote two filtered records
C12_Witness ==
    /\ decoder.mode = INFER
    /\ decoder.ignore_fields = {"attention_scores"}
    /\ NumLanes = 2
    /\ Len(step_log) = 2
    /\ pc = "cond"
    /\ DOMAIN outputs_ta = {"cur_decoder_hidden"}
    /\ DOMAIN FilteredRecord(2) = {"cur_decoder_hidden"}
    /\ TaSize(outputs_ta["cur_decoder_hidden"]) = 2

(***************************************************************************)
(* C13. A beam_ids entry that is not a lane of the previous step is fatal: *)
(* the step that received it is the last one, the call is in its error     *)
(* state from then on, the step is not run again, and no outputs, partial  *)
(* or stacked, are returned.                                               *)
(***************************************************************************)
\* sample_symbols returned, at the step logged at j, a parent that is no lane
InvalidBeamIds(j) ==
    \E i \in DOMAIN sample_log[j].result.beam_ids :
        sample_log[j].result.beam_ids[i] \notin DOMAIN sample_log[j].finished

Failed == pc = "failed"

C13_InvalidBeamFatal ==
    /\ \A j \in DOMAIN sample_log :
          InvalidBeamIds(j) =>
              /\ Failed
              /\ j = Len(sample_log)
              /\ calls.step = j
              /\ calls.sample_symbols = j
              /\ calls.next_symbols = j - 1
              /\ time = j - 1
    /\ Failed =>
          /\ Len(sample_log) > 0
          /\ InvalidBeamIds(Len(sample_log))
          /\ calls.stack = 0
          /\ final_outputs = None
          /\ final_infer_status = None
          /\ ret_val = None

\* two steps ran, the third received a parent lane that does not exist
C13_Witness ==
    /\ Failed
    /\ NumLanes = 2
    /\ Len(sample_log) = 3
    /\ InvalidBeamIds(3)
    /\ ~InvalidBeamIds(2)
    /\ calls.step = 3
    /\ ret_val = None

(***************************************************************************)
(* C14. The arguments of the post-processing hook.  Before the loop it is  *)
(* called with no previous input and the embedding of the start symbols at *)
(* position 0.  At the step of time t its second argument is the raw       *)
(* embedding of the next input symbols at position t + 1, and its first    *)
(* argument is the input step() consumed at time t, that is the carried    *)
(* input after the pre-processing hook (reordered by beam_ids in INFER     *)
(* mode); the value the loop carries on is the hook's result.              *)
(***************************************************************************)
\* the call of the post-processing hook before the loop
InitialPostCall ==
    /\ post_log[1].prev_inputs = None
    /\ post_log[1].predicted_inputs = EmbedWords(HelperInitSymbols.symbols, 0)

\* x in the lane order after the step logged at j
AfterReorder(x, j) ==
    IF decoder.mode = INFER THEN GatherStates(x, step_log[j].beam_ids) ELSE x

\* the value the post-processing hook returned at its n-th call
PostResult(n) ==
    PostprocessingFn(post_log[n].prev_inputs, post_log[n].predicted_inputs)

\* what every call of the hook in the loop has in common
PostCallInLoop(j) ==
    /\ step_log[j].time = j - 1
    /\ step_log[j].carried_inputs = PostResult(j)
    /\ post_log[j + 1].predicted_inputs =
          EmbedWords(next_log[j].symbols, step_log[j].time + 1)

C14_PostHookArguments ==
    pc # "start" =>
        /\ Len(post_log) = Len(step_log) + 1
        /\ Len(next_log) = Len(step_log)
        /\ InitialPostCall
        /\ inputs = PostResult(Len(post_log))
        /\ \A j \in DOMAIN step_log :
              /\ PostCallInLoop(j)
              /\ step_log[j].inputs =
                    PreprocessingFn(step_log[j].time, step_log[j].carried_inputs)
              /\ post_log[j + 1].prev_inputs =
                    AfterReorder(step_log[j].inputs, j)

\* the claim as stated: the first argument is the value the loop carried into
\* the step, whatever the pre-processing hook is
C14_PostHookReceivesCarried ==
    pc # "start" =>
        /\ InitialPostCall
        /\ \A j \in DOMAIN step_log :
              /\ PostCallInLoop(j)
              /\ post_log[j + 1].prev_inputs =
                    AfterReorder(step_log[j].carried_inputs, j)

\* overridden hooks in INFER mode: the second step reversed the beams and the
\* hook received the pre-processed input, which is not the carried one
C14_Witness ==
    /\ decoder.mode = INFER
    /\ decoder.hooks = "custom"
    /\ helper.beam_size = 2
    /\ NumLanes = 2
    /\ Len(step_log) = 2
    /\ pc = "cond"
    /\ step_log[2].beam_ids[0] = 1
    /\ step_log[2].inputs # step_log[2].carried_inputs
    /\ step_log[2].inputs[0] # step_log[2].inputs[1]
    /\ post_log[3].prev_inputs[0] = step_log[2].inputs[1]
    /\ post_log[3].prev_inputs # AfterReorder(step_log[2].carried_inputs, 2)

(***************************************************************************)
(* C15. The steps are strictly sequential: prepare() is called once,       *)
(* before any step; step() is called once per iteration of the loop; the   *)
(* step at position j runs at time j - 1; the state a step consumes is     *)
(* prepare()'s state (repeated over the beams in INFER mode) at time 0 and *)
(* otherwise the state the step before produced (reordered by that step's  *)
(* beam_ids in INFER mode); every step receives the same side parameters.  *)
(***************************************************************************)
\* prepare()'s value x as the loop first sees it
AcrossBeams(x) ==
    IF decoder.mode = INFER THEN StackBeamSize(x, helper.beam_size) ELSE x

\* the iterations of the loop body that were started
Iterations == calls.condition - (IF pc \in {"cond", "body"} THEN 0 ELSE 1)

C15_StrictlySequential ==
    /\ pc = "start" => calls.prepare = 0 /\ calls.step = 0
    /\ pc # "start" =>
          /\ calls.prepare = 1
          /\ calls.step = Len(step_log)
          /\ calls.step = time
          /\ calls.step = (IF pc = "body" THEN Iterations - 1 ELSE Iterations)
          /\ \A j \in DOMAIN step_log :
                /\ step_log[j].time = j - 1
                /\ step_log[j].params =
                      AcrossBeams(DecoderPrepare(helper.batch_size).params)
                /\ step_log[j].states_in =
                      IF j = 1
                      THEN AcrossBeams(DecoderPrepare(helper.batch_size).states)
                      ELSE AfterReorder(step_log[j - 1].states, j - 1)
                /\ step_log[j].states =
                      DecoderStep(step_log[j].inputs, step_log[j].states_in,
                                  step_log[j].params).states
          /\ Len(step_log) > 0 =>
                decoder_states =
                    AfterReorder(step_log[Len(step_log)].states, Len(step_log))

\* three INFER steps over two beams, the second of which reversed the beams
C15_Witness ==
    /\ decoder.mode = INFER
    /\ helper.beam_size = 2
    /\ NumLanes = 2
    /\ pc = "cond"
    /\ Len(step_log) = 3
    /\ step_log[2].beam_ids[0] = 1
    /\ step_log[2].states[0] # step_log[2].states[1]
    /\ step_log[3].states_in[0] = step_log[2].states[1]
    /\ step_log[3].time = 2
    /\ calls.prepare = 1

(***************************************************************************)
(* C16. INFER mode: the step at time t writes one BeamSearchStatus entry,  *)
(* at slot t, whose fields are what sample_symbols returned at that step;  *)
(* so at every loop boundary and after stacking the status sequence is as  *)
(* long as every output-field sequence.                                    *)
(***************************************************************************)
\* the status entry of slot t
StatusEntry(t) == [f \in StatusFields |-> infer_status_ta[f][t].value]

\* what sample_symbols returned at the step logged at j, as a status entry
SampledStatus(j) ==
    [log_probs |-> sample_log[j].result.next_log_probs,
     predicted_ids |-> sample_log[j].result.sample_ids,
     beam_ids |-> sample_log[j].result.beam_ids,
     lengths |-> sample_log[j].result.next_lengths]

C16_StatusPerStep ==
    (decoder.mode = INFER /\ pc # "start") =>
        /\ DOMAIN infer_status_ta = StatusFields
        /\ Len(sample_log) = calls.step
        /\ \A f \in StatusFields :
              /\ DOMAIN infer_status_ta[f] = 0 .. (calls.step - 1)
              /\ \A g \in DOMAIN outputs_ta :
                    TaSize(infer_status_ta[f]) = TaSize(outputs_ta[g])
              /\ \A t \in DOMAIN infer_status_ta[f] :
                    infer_status_ta[f][t].writes = 1
        /\ \A j \in DOMAIN sample_log :
              /\ sample_log[j].time = j - 1
              /\ StatusEntry(j - 1) = SampledStatus(j)
        /\ Stacked =>
              \A f \in StatusFields :
                  /\ DOMAIN final_infer_status[f] = 0 .. (calls.step - 1)
                  /\ \A g \in DOMAIN final_outputs :
                        DOMAIN final_infer_status[f] = DOMAIN final_outputs[g]
                  /\ \A j \in DOMAIN sample_log :
                        final_infer_status[f][j - 1] = SampledStatus(j)[f]

\* three INFER steps were stacked; the entries tell the steps apart
C16_Witness ==
    /\ decoder.mode = INFER
    /\ helper.beam_size = 2
    /\ NumLanes = 2
    /\ pc = "stacked"
    /\ calls.step = 3
    /\ \A f \in StatusFields : DOMAIN final_infer_status[f] = 0 .. 2
    /\ final_infer_status["beam_ids"][1] # final_infer_status["beam_ids"][2]
    /\ final_infer_status["predicted_ids"][2] # final_infer_status["beam_ids"][2]
    /\ final_infer_status["log_probs"][2] = sample_log[3].result.next_log_probs

(***************************************************************************)
(* C17. The lane count is constant over the loop, batch size times beam    *)
(* width in INFER mode and batch size in TRAIN/EVAL mode, and finished     *)
(* lanes are never removed: every step runs step() on all lanes, the       *)
(* finished ones included, and writes an output entry covering all lanes.  *)
(***************************************************************************)
\* the lane count of the decode call
LaneCount ==
    IF decoder.mode = INFER THEN helper.batch_size * helper.beam_size
    ELSE helper.batch_size

AllLanes == LaneSet(LaneCount)

C17_LaneCountConstant ==
    pc # "start" =>
        /\ DOMAIN inputs = AllLanes
        /\ DOMAIN decoder_states = AllLanes
        /\ DOMAIN decoding_params = AllLanes
        /\ DOMAIN finished = AllLanes
        /\ decoder.mode = INFER =>
              DOMAIN log_probs = AllLanes /\ DOMAIN lengths = AllLanes
        /\ pc = "body" => \E i \in AllLanes : ~finished[i]
        /\ \A j \in DOMAIN step_log :
              /\ DOMAIN step_log[j].inputs = AllLanes
              /\ DOMAIN step_log[j].states_in = AllLanes
              /\ DOMAIN step_log[j].states = AllLanes
              /\ \A f \in OutputFields :
                    DOMAIN step_log[j].outputs[f] = AllLanes
              /\ \A f \in DOMAIN outputs_ta :
                    DOMAIN outputs_ta[f][j - 1].value = AllLanes
              /\ decoder.mode = INFER =>
                    /\ DOMAIN sample_log[j].finished = AllLanes
                    /\ \A f \in StatusFields :
                          DOMAIN infer_status_ta[f][j - 1].value = AllLanes

\* lane 0 finished at the first step, lane 1 did not: the second step ran on
\* both lanes and wrote an entry for both
C17_Witness ==
    /\ decoder.mode = INFER
    /\ helper.beam_size = 2
    /\ helper.batch_size = 1
    /\ pc = "cond"
    /\ Len(step_log) = 2
    /\ sample_log[2].finished[0]
    /\ ~sample_log[2].finished[1]
    /\ DOMAIN step_log[2].inputs = {0, 1}
    /\ DOMAIN outputs_ta["cur_decoder_hidden"][1].value = {0, 1}

(***************************************************************************)
(* C18. INFER mode, lane alignment of the finished mask: the flag carried  *)
(* for lane i out of a step is true exactly if the policy reported lane i  *)
(* finished at that step or the parent lane beam_ids[i] was finished       *)
(* before it; a lane that descends from an unfinished parent and is not    *)
(* reported finished is not marked finished.                               *)
(***************************************************************************)
\* the finished mask carried out of the step logged at j
CarriedFinished(j) ==
    IF j < Len(sample_log) THEN sample_log[j + 1].finished ELSE finished

\* the parent of lane i at the step logged at j was finished before the step
ParentFinished(j, i) ==
    sample_log[j].finished[sample_log[j].result.beam_ids[i]]

C18_FinishedFollowsParent ==
    (decoder.mode = INFER /\ pc # "start") =>
        \A j \in DOMAIN sample_log : \A i \in Lanes :
            CarriedFinished(j)[i] <=>
                (next_log[j].finished[i] \/ ParentFinished(j, i))

\* lane 0 emitted EOS at the first step; the second step reversed the beams
\* and reported no lane finished: lane 0 now descends from the unfinished
\* lane 1 and is marked finished, lane 1 descends from the finished lane 0
\* and is not
C18_MisalignedMask ==
    /\ decoder.mode = INFER
    /\ helper.beam_size = 2
    /\ NumLanes = 2
    /\ pc = "cond"
    /\ Len(sample_log) = 2
    /\ sample_log[2].finished = [i \in Lanes |-> i = 0]
    /\ sample_log[2].result.beam_ids = [i \in Lanes |-> 1 - i]
    /\ next_log[2].finished = [i \in Lanes |-> FALSE]
    /\ finished[0]
    /\ ~finished[1]

(***************************************************************************)
(* C19. If init_symbols returns an all-true finished mask the loop body    *)
(* never runs: step(), sample_symbols and next_symbols are not called and  *)
(* every stacked buffer has length 0.  If the initial mask has a false     *)
(* lane, at least one step is executed.                                    *)
(***************************************************************************)
InitiallyAllFinished == ReduceAll(HelperInitSymbols.finished)

C19_InitiallyFinished ==
    /\ InitiallyAllFinished =>
          /\ pc \notin {"body", "failed"}
          /\ calls.step = 0
          /\ calls.sample_symbols = 0
          /\ calls.next_symbols = 0
          /\ calls.condition <= 1
          /\ step_log = <<>>
          /\ pc # "start" => \A ta \in Buffers : TaSize(ta) = 0
          /\ ~StackRaised
          /\ Stacked => \A b \in FinalBuffers : DOMAIN b = {}
    /\ ~InitiallyAllFinished =>
          /\ pc = "cond" /\ calls.condition = 0 => ~ReduceAll(finished)
          /\ Left => calls.step >= 1 /\ calls.next_symbols >= 1
          /\ ~StackRaised
          /\ Stacked => \A b \in FinalBuffers : DOMAIN b # {}

\* two lanes, both finished from the start: no step ran, the buffers were
\* never written and their stack raised, so there are no finalized buffers
C19_FinishedStartStackRaises ==
    /\ StackRaised
    /\ NumLanes = 2
    /\ InitiallyAllFinished
    /\ calls.condition = 1
    /\ calls.step = 0
    /\ calls.sample_symbols = 0
    /\ calls.next_symbols = 0
    /\ \A ta \in Buffers : TaSize(ta) = 0
    /\ final_outputs = None

====
